---- MODULE Spec2Model ----
(***************************************************************************)
(* aritexpr: lexer, integer ring, expression tree and the right-to-left    *)
(* parser of infix arithmetic expressions.                                 *)
(***************************************************************************)
EXTENDS Integers, Sequences, FiniteSets, TLC

VARIABLES
    pc,       \* position of the caller: "input", "parsed", "evaluated"
    source,   \* the source text, a sequence of one-character strings
    tokens,   \* the Vec<TokenWithPos<IntRingToken>> handed to the parser
    parsed,   \* ParseExpressionResult<ExpressionComponent<IntRing>>
    value,    \* EvaluateExpressionResult<IntRingElement>, or a RingResult
    iter,     \* a TokenIterator over source: its cursor and what it yielded
    built,    \* the expression trees built with the public constructors
    elms      \* the two IntRingElement operands of a ring operation

vars == <<pc, source, tokens, parsed, value, iter, built, elms>>

(***************************************************************************)
(* Bounds of the model.                                                    *)
(***************************************************************************)
\* the width in bits of the ring's signed integer (i64 in the source)
Width == 8
\* the longest token vector handed to the parser
MaxTokens == 6

IntMax == 2 ^ (Width - 1) - 1
IntMin == 0 - 2 ^ (Width - 1)

\* Option<T>: None is the empty sequence, Some(x) the one-element sequence
None == << >>
Some(x) == << x >>

(***************************************************************************)
(* expression/ring/intring.rs : the integer ring                           *)
(***************************************************************************)
Abs(n) == IF n < 0 THEN 0 - n ELSE n

\* quotient and remainder of Rust's integer division (truncation towards 0)
TruncDiv(a, b) ==
    IF (a < 0) = (b < 0) THEN Abs(a) \div Abs(b) ELSE 0 - (Abs(a) \div Abs(b))

TruncRem(a, b) == a - b * TruncDiv(a, b)

InRange(n) == IntMin <= n /\ n <= IntMax

checked_add(a, b) == IF InRange(a + b) THEN Some(a + b) ELSE None
checked_sub(a, b) == IF InRange(a - b) THEN Some(a - b) ELSE None
checked_mul(a, b) == IF InRange(a * b) THEN Some(a * b) ELSE None

checked_rem(a, b) ==
    IF b = 0 \/ (a = IntMin /\ b = 0 - 1) THEN None ELSE Some(TruncRem(a, b))

checked_div(a, b) ==
    IF b = 0 \/ (a = IntMin /\ b = 0 - 1) THEN None ELSE Some(TruncDiv(a, b))

RingOk(v) == [ok |-> TRUE, value |-> v]
RingErr(m) == [ok |-> FALSE, message |-> m]

ring_result(res) == IF res # None THEN RingOk(res[1]) ELSE RingErr("Overflow")

IntRing_add(elm1, elm2) == ring_result(checked_add(elm1, elm2))
IntRing_sub(elm1, elm2) == ring_result(checked_sub(elm1, elm2))

\* a multiplication that wraps around instead of reporting the overflow
IntRing_mul_wrapping(elm1, elm2) ==
    RingOk(((elm1 * elm2 - IntMin) % (2 ^ Width)) + IntMin)

IntRing_mul(elm1, elm2) == ring_result(checked_mul(elm1, elm2))

\* a division that truncates instead of refusing an inexact quotient
IntRing_div_truncating(elm1, elm2) == ring_result(checked_div(elm1, elm2))

IntRing_div(elm1, elm2) ==
    LET rem == checked_rem(elm1, elm2) IN
    IF rem # None /\ rem[1] # 0
    THEN RingErr("Result not in ring")
    ELSE ring_result(checked_div(elm1, elm2))

(***************************************************************************)
(* expression.rs : the expression tree and its evaluation                  *)
(***************************************************************************)
new_ring_element(element) == [type |-> "RingElement", element |-> element]
new_int_element(v) == new_ring_element(v)
new_addition(expr1, expr2) == [type |-> "Addition", left |-> expr1, right |-> expr2]
new_subtraction(expr1, expr2) == [type |-> "Subtraction", left |-> expr1, right |-> expr2]
new_multiplication(expr1, expr2) == [type |-> "Multiplication", left |-> expr1, right |-> expr2]
new_division(expr1, expr2) == [type |-> "Division", left |-> expr1, right |-> expr2]
new_parenteses(expr) == [type |-> "Parentheses", inner |-> expr]
new_unary_minus(expr) == [type |-> "UnaryMinus", inner |-> expr]

OperatorTypes == {"Addition", "Subtraction", "Multiplication", "Division"}

is_operator(e) == e.type \in OperatorTypes

\* i32::MAX stands for "atomic"
PrecedenceMax == 2147483647

precedence(e) ==
    CASE e.type \in {"Addition", "Subtraction"} -> 0
      [] e.type \in {"Multiplication", "Division"} -> 1
      [] OTHER -> PrecedenceMax

binary_operation(type, a, b) ==
    CASE type = "Addition" -> IntRing_add(a, b)
      [] type = "Subtraction" -> IntRing_sub(a, b)
      [] type = "Multiplication" -> IntRing_mul(a, b)
      [] type = "Division" -> IntRing_div(a, b)

EvalOk(v) == [kind |-> "Ok", value |-> v]
EvalErr(m) == [kind |-> "Err", message |-> m]
EvalPanic == [kind |-> "Panic", message |-> "implement"]

RECURSIVE evaluate(_)

\* the operands evaluated in the other order: right first, then left
evaluate_binary_operation_right_first(type, left, right) ==
    LET r == evaluate(right) IN
    IF r.kind # "Ok" THEN r
    ELSE LET l == evaluate(left) IN
         IF l.kind # "Ok" THEN l
         ELSE LET res == binary_operation(type, l.value, r.value) IN
              IF res.ok THEN EvalOk(res.value) ELSE EvalErr(res.message)

\* Ok(binary_operation(&left.evaluate()?, &right.evaluate()?)?)
evaluate_binary_operation(type, left, right) ==
    LET l == evaluate(left) IN
    IF l.kind # "Ok" THEN l
    ELSE LET r == evaluate(right) IN
         IF r.kind # "Ok" THEN r
         ELSE LET res == binary_operation(type, l.value, r.value) IN
              IF res.ok THEN EvalOk(res.value) ELSE EvalErr(res.message)

evaluate(e) ==
    CASE e.type = "RingElement" -> EvalOk(e.element)
      [] e.type = "Parentheses" -> evaluate(e.inner)
      [] e.type = "UnaryMinus" -> EvalPanic
      [] OTHER -> evaluate_binary_operation(e.type, e.left, e.right)

(***************************************************************************)
(* token.rs, token/intring.rs : the lexer                                  *)
(***************************************************************************)
\* A character is a one-character string; "U+0663" stands for the single
\* character ARABIC-INDIC DIGIT THREE, numeric but not an ASCII digit.
AsciiDigits == <<"0", "1", "2", "3", "4", "5", "6", "7", "8", "9">>

IsAsciiDigit(c) == \E k \in 1..10 : AsciiDigits[k] = c

DigitValue(c) == (CHOOSE k \in 1..10 : AsciiDigits[k] = c) - 1

\* char::is_whitespace and char::is_numeric on the characters of the model
is_whitespace(c) == c = " "
is_numeric(c) == IsAsciiDigit(c) \/ c = "U+0663"

LeftParenthesis == [type |-> "LeftParenthesis"]
RightParenthesis == [type |-> "RightParenthesis"]
PlusSign == [type |-> "PlusSign"]
MinusSign == [type |-> "MinusSign"]
MultiplicationSign == [type |-> "MultiplicationSign"]
DivisionSign == [type |-> "DivisionSign"]
Modulo == [type |-> "Modulo"]
DecimalInteger(d) == [type |-> "DecimalInteger", d |-> d]

TokenWithPos(token, position) == [token |-> token, position |-> position]

RECURSIVE DigitsOf(_)
\* the decimal digits of a natural number, most significant first
DigitsOf(n) ==
    IF n < 10 THEN <<AsciiDigits[n + 1]>>
    ELSE Append(DigitsOf(n \div 10), AsciiDigits[(n % 10) + 1])

\* Display of an i64: a minus sign for a negative value, then the digits
DecimalText(n) == IF n < 0 THEN <<"-">> \o DigitsOf(0 - n) ELSE DigitsOf(n)

\* Display of a token
TokenText(token) ==
    CASE token.type = "LeftParenthesis" -> <<"(">>
      [] token.type = "RightParenthesis" -> <<")">>
      [] token.type = "PlusSign" -> <<"+">>
      [] token.type = "MinusSign" -> <<"-">>
      [] token.type = "MultiplicationSign" -> <<"*">>
      [] token.type = "DivisionSign" -> <<"/">>
      [] token.type = "DecimalInteger" -> DecimalText(token.d)
      [] token.type = "Modulo" -> <<"m", "o", "d">>

RECURSIVE parse_i64_from(_, _, _)
\* str::parse::<i64> on a run of numeric characters: an error on a character
\* that is not an ASCII digit and on a value above the largest integer
parse_i64_from(decimals, k, acc) ==
    IF k > Len(decimals) THEN Some(acc)
    ELSE IF ~IsAsciiDigit(decimals[k]) THEN None
    ELSE LET next == acc * 10 + DigitValue(decimals[k]) IN
         IF next > IntMax THEN None ELSE parse_i64_from(decimals, k + 1, next)

parse_i64(decimals) == parse_i64_from(decimals, 1, 0)

TokenOk(token, next) == [ok |-> TRUE, token |-> token, next |-> next]
TokenErr(message, position, next) ==
    [ok |-> FALSE, message |-> message, position |-> position, next |-> next]

invalid_token_result(pos, next) == TokenErr("Invalid token", pos, next)

RECURSIVE NumericRunEnd(_, _)
\* next_if(is_numeric) repeated: the index after the run that starts at k
NumericRunEnd(src, k) ==
    IF k <= Len(src) /\ is_numeric(src[k]) THEN NumericRunEnd(src, k + 1) ELSE k

\* the character cursor is at index k (1-based) of src; its position is k-1
read_next_token(src, k) ==
    LET c == src[k]
        pos == k - 1
    IN  CASE c = "(" -> TokenOk(LeftParenthesis, k + 1)
          [] c = ")" -> TokenOk(RightParenthesis, k + 1)
          [] c = "+" -> TokenOk(PlusSign, k + 1)
          [] c = "-" -> TokenOk(MinusSign, k + 1)
          [] c = "*" -> TokenOk(MultiplicationSign, k + 1)
          [] c = "/" -> TokenOk(DivisionSign, k + 1)
          [] c = "m" ->
               LET last == IF k + 2 <= Len(src) THEN k + 2 ELSE Len(src)
                   str == SubSeq(src, k, last)
               IN  IF str = <<"m", "o", "d">>
                   THEN TokenOk(Modulo, last + 1)
                   ELSE invalid_token_result(pos, last + 1)
          [] is_numeric(c) ->
               LET end == NumericRunEnd(src, k)
                   parse_result == parse_i64(SubSeq(src, k, end - 1))
               IN  IF parse_result # None
                   THEN TokenOk(DecimalInteger(parse_result[1]), end)
                   ELSE TokenErr("Decimal number too big", pos, end)
          [] OTHER -> invalid_token_result(pos, k)

RECURSIVE SkipWhitespace(_, _)
SkipWhitespace(src, k) ==
    IF k <= Len(src) /\ is_whitespace(src[k]) THEN SkipWhitespace(src, k + 1) ELSE k

\* variant: the position is read before the whitespace is skipped
TokenIterator_next_position_first(src, k) ==
    LET start == SkipWhitespace(src, k) IN
    IF start > Len(src) THEN [kind |-> "None", next |-> start]
    ELSE LET position == k - 1
             res == read_next_token(src, start)
         IN  IF res.ok
             THEN [kind |-> "Ok", item |-> TokenWithPos(res.token, position), next |-> res.next]
             ELSE [kind |-> "Err", message |-> res.message, position |-> res.position,
                   next |-> res.next]

\* TokenIterator::next with the character cursor at k
TokenIterator_next(src, k) ==
    LET start == SkipWhitespace(src, k) IN
    IF start > Len(src) THEN [kind |-> "None", next |-> start]
    ELSE LET position == start - 1
             res == read_next_token(src, start)
         IN  IF res.ok
             THEN [kind |-> "Ok", item |-> TokenWithPos(res.token, position), next |-> res.next]
             ELSE [kind |-> "Err", message |-> res.message, position |-> res.position,
                   next |-> res.next]

RECURSIVE collect(_, _, _)
\* Iterator::collect into TokenResult<Vec<_>>: the tokens, or the first error
collect(src, k, acc) ==
    LET item == TokenIterator_next(src, k) IN
    CASE item.kind = "None" -> [ok |-> TRUE, tokens |-> acc]
      [] item.kind = "Err" -> [ok |-> FALSE, message |-> item.message, position |-> item.position]
      [] OTHER -> collect(src, item.next, Append(acc, item.item))

(***************************************************************************)
(* expression/parser.rs : the parser                                       *)
(***************************************************************************)
ParseExpressionError(message, position, kind) ==
    [message |-> message, position |-> position, kind |-> kind]

\* A call of the recursive parser leaves behind its result, the reversed token
\* cursor i (the tokens 1..i are still unread), the pending slot
\* parsed_expression, and whether every debug assertion it met held.
RecOk(val, i, pe, asserts) ==
    [kind |-> "Ok", val |-> val, i |-> i, pe |-> pe, asserts |-> asserts]
RecErr(message, position, kind, i, pe, asserts) ==
    [kind |-> "Err", err |-> ParseExpressionError(message, position, kind),
     i |-> i, pe |-> pe, asserts |-> asserts]
RecPanic(message, i, pe, asserts) ==
    [kind |-> "Panic", message |-> message, i |-> i, pe |-> pe, asserts |-> asserts]

IsBinaryOperatorToken(token) ==
    token.type \in {"PlusSign", "MinusSign", "MultiplicationSign", "DivisionSign"}

\* variant: a minus sign adds the negated right operand
construct_expression_negating(operator, expr1, expr2) ==
    CASE operator.type = "PlusSign" -> new_addition(expr1, expr2)
      [] operator.type = "MinusSign" -> new_addition(expr1, new_unary_minus(expr2))
      [] operator.type = "MultiplicationSign" -> new_multiplication(expr1, expr2)
      [] operator.type = "DivisionSign" -> new_division(expr1, expr2)

construct_expression(operator, expr1, expr2) ==
    CASE operator.type = "PlusSign" -> new_addition(expr1, expr2)
      [] operator.type = "MinusSign" -> new_subtraction(expr1, expr2)
      [] operator.type = "MultiplicationSign" -> new_multiplication(expr1, expr2)
      [] operator.type = "DivisionSign" -> new_division(expr1, expr2)

\* left_mut and right_mut: the child of an operator node, or a panic (None)
left_mut(e) == IF e.type \in OperatorTypes THEN Some(e.left) ELSE None
right_mut(e) == IF e.type \in OperatorTypes THEN Some(e.right) ELSE None

\* one of the left_mut and right_mut calls of the swaps panics
swap_panics(lhs_expression, operator_expression) ==
    IF is_operator(lhs_expression)
       /\ precedence(lhs_expression) < precedence(operator_expression)
    THEN left_mut(operator_expression) = None \/ right_mut(lhs_expression) = None
    ELSE left_mut(operator_expression) = None

\* variant: rotation also when the precedences are equal
precedence_repair_on_equal(lhs_expression, operator_expression) ==
    IF is_operator(lhs_expression)
       /\ precedence(lhs_expression) <= precedence(operator_expression)
    THEN LET op1 == [operator_expression EXCEPT !.left = lhs_expression.right]
             lhs1 == [lhs_expression EXCEPT !.right = operator_expression.left]
             lhs2 == [lhs1 EXCEPT !.right = op1]
         IN  lhs2
    ELSE [operator_expression EXCEPT !.left = lhs_expression]

\* the two swaps of the rotation, one after the other
precedence_repair(lhs_expression, operator_expression) ==
    IF is_operator(lhs_expression)
       /\ precedence(lhs_expression) < precedence(operator_expression)
    THEN LET op1 == [operator_expression EXCEPT !.left = lhs_expression.right]
             lhs1 == [lhs_expression EXCEPT !.right = operator_expression.left]
             lhs2 == [lhs1 EXCEPT !.right = op1]
         IN  lhs2
    ELSE [operator_expression EXCEPT !.left = lhs_expression]

\* format_args!("Unhandled token: {}", token)
unhandled_token_message(token) ==
    CASE token.type = "Modulo" -> "Unhandled token: mod"
      [] OTHER -> "Unhandled token"

RECURSIVE parse_int_ring_expression_from_tokens_rec(_, _, _, _)

\* variant: a literal replaces the pending operand instead of failing
decimal_integer_arm_replace(toks, i, parsed_expression, has_open_parenthesis) ==
    LET d == toks[i].token.d
        rest == parse_int_ring_expression_from_tokens_rec(
                    toks, i - 1, Some(new_int_element(d)), has_open_parenthesis)
    IN  IF rest.kind # "Ok" THEN rest
        ELSE IF rest.val # None
        THEN RecOk(rest.val, rest.i, rest.pe, rest.asserts /\ rest.pe = None)
        ELSE IF rest.pe = None
        THEN RecPanic("called Option::unwrap() on a None value",
                      rest.i, rest.pe, rest.asserts)
        ELSE RecOk(Some(rest.pe[1]), rest.i, None, rest.asserts)

\* match arm IntRingToken::DecimalInteger(d)
decimal_integer_arm(toks, i, parsed_expression, has_open_parenthesis) ==
    LET position == toks[i].position
        d == toks[i].token.d
    IN  IF parsed_expression # None
        THEN RecErr("Ring element cannot be followed by another ring element in expression",
                    position, "Unspecified", i - 1, Some(new_int_element(d)), TRUE)
        ELSE LET rest == parse_int_ring_expression_from_tokens_rec(
                             toks, i - 1, Some(new_int_element(d)), has_open_parenthesis)
             IN  IF rest.kind # "Ok" THEN rest
                 ELSE IF rest.val # None
                 THEN RecOk(rest.val, rest.i, rest.pe, rest.asserts /\ rest.pe = None)
                 ELSE IF rest.pe = None
                 THEN RecPanic("called Option::unwrap() on a None value",
                               rest.i, rest.pe, rest.asserts)
                 ELSE RecOk(Some(rest.pe[1]), rest.i, None, rest.asserts)

\* variant: the error of the missing right operand carries the other message
operator_arm_swapped_message(toks, i, parsed_expression, has_open_parenthesis) ==
    LET position == toks[i].position
        operator == toks[i].token
    IN  IF parsed_expression # None
        THEN LET rhs_expression == parsed_expression[1]
                 lhs == parse_int_ring_expression_from_tokens_rec(
                            toks, i - 1, None, has_open_parenthesis)
             IN  IF lhs.kind # "Ok" THEN lhs
                 ELSE IF lhs.val = None
                 THEN RecErr("Missing left hand side expression for operator",
                             position, "Unspecified", lhs.i, lhs.pe, lhs.asserts)
                 ELSE LET operator_expression ==
                              construct_expression(operator, new_int_element(0), rhs_expression)
                      IN  IF swap_panics(lhs.val[1], operator_expression)
                          THEN RecPanic("Not an operator", lhs.i, lhs.pe, lhs.asserts)
                          ELSE RecOk(Some(precedence_repair(lhs.val[1], operator_expression)),
                                     lhs.i, lhs.pe, lhs.asserts)
        ELSE RecErr("Missing left hand side expression for operator",
                    position, "Unspecified", i - 1, None, TRUE)

\* match arm PlusSign | MinusSign | MultiplicationSign | DivisionSign
operator_arm(toks, i, parsed_expression, has_open_parenthesis) ==
    LET position == toks[i].position
        operator == toks[i].token
    IN  IF parsed_expression # None
        THEN LET rhs_expression == parsed_expression[1]
                 lhs == parse_int_ring_expression_from_tokens_rec(
                            toks, i - 1, None, has_open_parenthesis)
             IN  IF lhs.kind # "Ok" THEN lhs
                 ELSE IF lhs.val = None
                 THEN RecErr("Missing left hand side expression for operator",
                             position, "Unspecified", lhs.i, lhs.pe, lhs.asserts)
                 ELSE LET operator_expression ==
                              construct_expression(operator, new_int_element(0), rhs_expression)
                      IN  IF swap_panics(lhs.val[1], operator_expression)
                          THEN RecPanic("Not an operator", lhs.i, lhs.pe, lhs.asserts)
                          ELSE RecOk(Some(precedence_repair(lhs.val[1], operator_expression)),
                                     lhs.i, lhs.pe, lhs.asserts)
        ELSE RecErr("Missing right hand side expression for operator",
                    position, "Unspecified", i - 1, None, TRUE)

\* variant: the group is returned without parsing the tokens to its left
right_parenthesis_arm_stop(toks, i, parsed_expression, has_open_parenthesis) ==
    LET position == toks[i].position
        inner == parse_int_ring_expression_from_tokens_rec(toks, i - 1, parsed_expression, TRUE)
    IN  IF inner.kind # "Ok" THEN inner
        ELSE IF inner.val # None
        THEN IF inner.i > 0 /\ toks[inner.i].token = LeftParenthesis
             THEN RecOk(Some(new_parenteses(inner.val[1])), inner.i - 1, None, inner.asserts)
             ELSE RecErr("Missing left parenthesis for right parenthesis", position,
                         "Unspecified", IF inner.i > 0 THEN inner.i - 1 ELSE 0,
                         inner.pe, inner.asserts)
        ELSE RecErr("No expression", position, "NoExpression",
                    inner.i, inner.pe, inner.asserts)

\* match arm IntRingToken::RightParenthesis
right_parenthesis_arm(toks, i, parsed_expression, has_open_parenthesis) ==
    LET position == toks[i].position
        inner == parse_int_ring_expression_from_tokens_rec(toks, i - 1, parsed_expression, TRUE)
    IN  IF inner.kind # "Ok" THEN inner
        ELSE IF inner.val # None
        THEN IF inner.i > 0 /\ toks[inner.i].token = LeftParenthesis
             THEN LET rest == parse_int_ring_expression_from_tokens_rec(
                                  toks, inner.i - 1, Some(new_parenteses(inner.val[1])),
                                  has_open_parenthesis)
                  IN  [rest EXCEPT !.asserts = rest.asserts /\ inner.asserts]
             ELSE RecErr("Missing left parenthesis for right parenthesis", position,
                         "Unspecified", IF inner.i > 0 THEN inner.i - 1 ELSE 0,
                         inner.pe, inner.asserts)
        ELSE RecErr("No expression", position, "NoExpression",
                    inner.i, inner.pe, inner.asserts)

\* variant: the left parenthesis that ends a group empties the pending slot
left_parenthesis_arm_take(toks, i, parsed_expression, has_open_parenthesis) ==
    IF has_open_parenthesis
    THEN RecOk(None, i, None, TRUE)
    ELSE RecErr("Missing right parenthesis for left parenthesis",
                toks[i].position, "Unspecified", i, parsed_expression, TRUE)

\* the two match arms IntRingToken::LeftParenthesis; the token is not consumed
left_parenthesis_arm(toks, i, parsed_expression, has_open_parenthesis) ==
    IF has_open_parenthesis
    THEN RecOk(None, i, parsed_expression, TRUE)
    ELSE RecErr("Missing right parenthesis for left parenthesis",
                toks[i].position, "Unspecified", i, parsed_expression, TRUE)

parse_int_ring_expression_from_tokens_rec(toks, i, parsed_expression, has_open_parenthesis) ==
    IF i = 0
    THEN RecOk(parsed_expression, i, None, TRUE)
    ELSE LET position == toks[i].position
             token == toks[i].token
         IN  CASE token.type = "DecimalInteger" ->
                    decimal_integer_arm(toks, i, parsed_expression, has_open_parenthesis)
               [] IsBinaryOperatorToken(token) ->
                    operator_arm(toks, i, parsed_expression, has_open_parenthesis)
               [] token.type = "RightParenthesis" ->
                    right_parenthesis_arm(toks, i, parsed_expression, has_open_parenthesis)
               [] token.type = "LeftParenthesis" ->
                    left_parenthesis_arm(toks, i, parsed_expression, has_open_parenthesis)
               [] OTHER ->
                    RecErr(unhandled_token_message(token),
                           position, "Unspecified", i, parsed_expression, TRUE)

\* the caller's view: Ok(expr), Err(err) or a panic; exhausted is the
\* debug assertion of the top level, asserts those of the recursion
parse_int_ring_expression_from_tokens(toks) ==
    LET result == parse_int_ring_expression_from_tokens_rec(toks, Len(toks), None, FALSE)
        exhausted == result.kind = "Ok" => result.i = 0
    IN  CASE result.kind = "Panic" ->
               [kind |-> "Panic", message |-> result.message,
                asserts |-> result.asserts, exhausted |-> exhausted]
          [] result.kind = "Err" ->
               [kind |-> "Err", err |-> result.err,
                asserts |-> result.asserts, exhausted |-> exhausted]
          [] result.kind = "Ok" /\ result.val # None ->
               [kind |-> "Ok", expr |-> result.val[1],
                asserts |-> result.asserts, exhausted |-> exhausted]
          [] OTHER ->
               [kind |-> "Err", err |-> ParseExpressionError("No expression", 0, "NoExpression"),
                asserts |-> result.asserts, exhausted |-> exhausted]

\* From<TokenError> for ParseExpressionError
from_token_error(message, position) ==
    ParseExpressionError(message, position, "TokenParseError")

\* variant: the parser is run although the lexer failed
parse_int_ring_expression_parser_run(str) ==
    LET tokens_result == collect(str, 1, << >>) IN
    IF ~tokens_result.ok
    THEN parse_int_ring_expression_from_tokens(<< >>)
    ELSE parse_int_ring_expression_from_tokens(tokens_result.tokens)

parse_int_ring_expression(str) ==
    LET tokens_result == collect(str, 1, << >>) IN
    IF ~tokens_result.ok
    THEN [kind |-> "Err", err |-> from_token_error(tokens_result.message, tokens_result.position),
          asserts |-> TRUE, exhausted |-> TRUE]
    ELSE parse_int_ring_expression_from_tokens(tokens_result.tokens)

(***************************************************************************)
(* The callers: a token vector is built, parsed, and the tree evaluated    *)
(* (bin/ringexpression.rs, tests/expressiontest.rs).                       *)
(***************************************************************************)
NoResult == [kind |-> "NotRun"]

\* TokenIterator::new: the cursor before the first character, nothing yielded
TokenIterator_new == [cursor |-> 1, error |-> None, done |-> FALSE]

\* the literals of the token vectors: a small value and the largest one
Literals == {2, IntMax}

TokenAlphabet ==
    {LeftParenthesis, RightParenthesis, PlusSign, MinusSign, MultiplicationSign,
     DivisionSign, Modulo} \cup {DecimalInteger(d) : d \in Literals}

Init ==
    /\ pc = "input"
    /\ source = << >>
    /\ tokens = << >>
    /\ parsed = NoResult
    /\ value = NoResult
    /\ iter = TokenIterator_new
    /\ built = << >>
    /\ elms = << >>

\* the next token of a source whose tokens are separated by one blank
PushToken(token) ==
    /\ pc = "input"
    /\ Len(tokens) < MaxTokens
    /\ LET blank == IF source = << >> THEN << >> ELSE <<" ">> IN
       /\ tokens' = Append(tokens, TokenWithPos(token, Len(source) + Len(blank)))
       /\ source' = source \o blank \o TokenText(token)
    /\ UNCHANGED <<pc, parsed, value, iter, built, elms>>

ParseTokens ==
    /\ pc = "input"
    /\ parsed' = parse_int_ring_expression_from_tokens(tokens)
    /\ pc' = "parsed"
    /\ UNCHANGED <<source, tokens, value, iter, built, elms>>

Evaluate ==
    /\ pc = "parsed"
    /\ parsed.kind = "Ok"
    /\ value' = evaluate(parsed.expr)
    /\ pc' = "evaluated"
    /\ UNCHANGED <<source, tokens, parsed, iter, built, elms>>

Next ==
    \/ \E token \in TokenAlphabet : PushToken(token)
    \/ ParseTokens
    \/ Evaluate

Spec == Init /\ [][Next]_vars

(***************************************************************************)
(* Longer token vectors over fewer tokens: nested groups.                  *)
(***************************************************************************)
\* the longest token vector of nested groups
MaxNestedTokens == 8

NestedAlphabet ==
    {LeftParenthesis, RightParenthesis, MultiplicationSign, DecimalInteger(2)}

PushNestedToken(token) ==
    /\ pc = "input"
    /\ Len(tokens) < MaxNestedTokens
    /\ LET blank == IF source = << >> THEN << >> ELSE <<" ">> IN
       /\ tokens' = Append(tokens, TokenWithPos(token, Len(source) + Len(blank)))
       /\ source' = source \o blank \o TokenText(token)
    /\ UNCHANGED <<pc, parsed, value, iter, built, elms>>

NestedNext ==
    \/ \E token \in NestedAlphabet : PushNestedToken(token)
    \/ ParseTokens
    \/ Evaluate

SpecNested == Init /\ [][NestedNext]_vars

(***************************************************************************)
(* The round trip: the decimal text of an integer is parsed and evaluated  *)
(* (parse_int_ring_expression on a source string).                         *)
(***************************************************************************)
RoundTripInit ==
    /\ pc = "input"
    /\ \E n \in IntMin..IntMax : source = DecimalText(n)
    /\ tokens = << >>
    /\ parsed = NoResult
    /\ value = NoResult
    /\ iter = TokenIterator_new
    /\ built = << >>
    /\ elms = << >>

ParseSource ==
    /\ pc = "input"
    /\ LET tokens_result == collect(source, 1, << >>) IN
       tokens' = IF tokens_result.ok THEN tokens_result.tokens ELSE << >>
    /\ parsed' = parse_int_ring_expression(source)
    /\ pc' = "parsed"
    /\ UNCHANGED <<source, value, iter, built, elms>>

RoundTripNext ==
    \/ ParseSource
    \/ Evaluate

SpecRoundTrip == RoundTripInit /\ [][RoundTripNext]_vars

(***************************************************************************)
(* The ring operations applied to every pair of ring elements.             *)
(***************************************************************************)
RingInit ==
    /\ pc = "ring"
    /\ \E a \in IntMin..IntMax, b \in IntMin..IntMax :
          elms = <<new_ring_element(a).element, new_ring_element(b).element>>
    /\ source = << >>
    /\ tokens = << >>
    /\ parsed = NoResult
    /\ value = NoResult
    /\ iter = TokenIterator_new
    /\ built = << >>

Add ==
    /\ pc = "ring"
    /\ value' = IntRing_add(elms[1], elms[2])
    /\ pc' = "add"
    /\ UNCHANGED <<source, tokens, parsed, iter, built, elms>>

Sub ==
    /\ pc = "ring"
    /\ value' = IntRing_sub(elms[1], elms[2])
    /\ pc' = "sub"
    /\ UNCHANGED <<source, tokens, parsed, iter, built, elms>>

Mul ==
    /\ pc = "ring"
    /\ value' = IntRing_mul(elms[1], elms[2])
    /\ pc' = "mul"
    /\ UNCHANGED <<source, tokens, parsed, iter, built, elms>>

Div ==
    /\ pc = "ring"
    /\ value' = IntRing_div(elms[1], elms[2])
    /\ pc' = "div"
    /\ UNCHANGED <<source, tokens, parsed, iter, built, elms>>

RingNext ==
    \/ Add
    \/ Sub
    \/ Mul
    \/ Div

SpecRing == RingInit /\ [][RingNext]_vars

(***************************************************************************)
(* Trees built with the public constructors, then evaluated.  built is the *)
(* stack of the trees the caller holds; a constructor consumes its         *)
(* arguments from the top of the stack.                                    *)
(***************************************************************************)
\* the most nodes the trees held by the caller have together
MaxNodes == 7

ElementValues == {2, IntMax}

RECURSIVE Nodes(_)
Nodes(e) ==
    CASE e.type = "RingElement" -> 1
      [] e.type \in {"Parentheses", "UnaryMinus"} -> 1 + Nodes(e.inner)
      [] OTHER -> 1 + Nodes(e.left) + Nodes(e.right)

RECURSIVE TotalNodes(_)
TotalNodes(stack) ==
    IF stack = << >> THEN 0 ELSE Nodes(Head(stack)) + TotalNodes(Tail(stack))

Top(stack) == stack[Len(stack)]
Pop(stack, n) == SubSeq(stack, 1, Len(stack) - n)

EvalInit ==
    /\ pc = "build"
    /\ built = << >>
    /\ source = << >>
    /\ tokens = << >>
    /\ parsed = NoResult
    /\ value = NoResult
    /\ iter = TokenIterator_new
    /\ elms = << >>

NewIntElement(v) ==
    /\ pc = "build"
    /\ TotalNodes(built) < MaxNodes
    /\ built' = Append(built, new_int_element(v))
    /\ UNCHANGED <<pc, source, tokens, parsed, value, iter, elms>>

\* expr1 is the tree below the top of the stack, expr2 the top
NewBinary(type) ==
    /\ pc = "build"
    /\ TotalNodes(built) < MaxNodes
    /\ Len(built) >= 2
    /\ LET expr1 == built[Len(built) - 1]
           expr2 == built[Len(built)]
           node == CASE type = "Addition" -> new_addition(expr1, expr2)
                     [] type = "Subtraction" -> new_subtraction(expr1, expr2)
                     [] type = "Multiplication" -> new_multiplication(expr1, expr2)
                     [] type = "Division" -> new_division(expr1, expr2)
       IN  built' = Append(Pop(built, 2), node)
    /\ UNCHANGED <<pc, source, tokens, parsed, value, iter, elms>>

NewParenteses ==
    /\ pc = "build"
    /\ TotalNodes(built) < MaxNodes
    /\ Len(built) >= 1
    /\ built' = Append(Pop(built, 1), new_parenteses(Top(built)))
    /\ UNCHANGED <<pc, source, tokens, parsed, value, iter, elms>>

NewUnaryMinus ==
    /\ pc = "build"
    /\ TotalNodes(built) < MaxNodes
    /\ Len(built) >= 1
    /\ built' = Append(Pop(built, 1), new_unary_minus(Top(built)))
    /\ UNCHANGED <<pc, source, tokens, parsed, value, iter, elms>>

EvaluateBuilt ==
    /\ pc = "build"
    /\ Len(built) >= 1
    /\ value' = evaluate(Top(built))
    /\ pc' = "evaluated_built"
    /\ UNCHANGED <<source, tokens, parsed, iter, built, elms>>

EvalNext ==
    \/ \E v \in ElementValues : NewIntElement(v)
    \/ \E type \in OperatorTypes : NewBinary(type)
    \/ NewParenteses
    \/ NewUnaryMinus
    \/ EvaluateBuilt

SpecEval == EvalInit /\ [][EvalNext]_vars

(***************************************************************************)
(* A source text written character by character, lexed token by token with *)
(* a TokenIterator of its own, then handed to parse_int_ring_expression.   *)
(***************************************************************************)
\* the longest source text
MaxChars == 4

Characters ==
    {" ", "(", ")", "+", "-", "*", "/", "0", "1", "9", "m", "o", "d", "x", "U+0663"}

TextInit ==
    /\ pc = "text"
    /\ source = << >>
    /\ tokens = << >>
    /\ parsed = NoResult
    /\ value = NoResult
    /\ iter = TokenIterator_new
    /\ built = << >>
    /\ elms = << >>

AppendChar(c) ==
    /\ pc = "text"
    /\ Len(source) < MaxChars
    /\ source' = Append(source, c)
    /\ UNCHANGED <<pc, tokens, parsed, value, iter, built, elms>>

\* the iterator has returned None or an error: the caller stops calling it
Lexed == iter.done \/ iter.error # None

\* one call of next() by a caller that collects the tokens until the first
\* error or None
NextToken ==
    /\ pc \in {"text", "lexing"}
    /\ ~Lexed
    /\ LET item == TokenIterator_next(source, iter.cursor) IN
       /\ iter' = [cursor |-> item.next,
                   error |-> IF item.kind = "Err"
                             THEN Some([message |-> item.message,
                                        position |-> item.position])
                             ELSE None,
                   done |-> item.kind = "None"]
       /\ tokens' = IF item.kind = "Ok" THEN Append(tokens, item.item) ELSE tokens
    /\ pc' = "lexing"
    /\ UNCHANGED <<source, parsed, value, built, elms>>

ParseText ==
    /\ pc = "lexing"
    /\ Lexed
    /\ parsed' = parse_int_ring_expression(source)
    /\ pc' = "parsed"
    /\ UNCHANGED <<source, tokens, value, iter, built, elms>>

TextNext ==
    \/ \E c \in Characters : AppendChar(c)
    \/ NextToken
    \/ ParseText
    \/ Evaluate

SpecText == TextInit /\ [][TextNext]_vars

(***************************************************************************)
(* The grammar of the specification, read left to right:                   *)
(*   expr := term (('+'|'-'|'*'|'/') term)*                                *)
(*   term := integer-literal | '(' expr ')'                                *)
(* with * and / binding tighter than + and -, all left-associative.        *)
(***************************************************************************)
RefFail == [ok |-> FALSE]
RefOk(tree, next) == [ok |-> TRUE, tree |-> tree, next |-> next]

RECURSIVE RefExpr(_, _)
RECURSIVE RefSumLoop(_, _, _)
RECURSIVE RefProductLoop(_, _, _)

\* term := integer-literal | '(' expr ')', starting at token k
RefTerm(ts, k) ==
    IF k > Len(ts) THEN RefFail
    ELSE IF ts[k].type = "DecimalInteger" THEN RefOk(new_int_element(ts[k].d), k + 1)
    ELSE IF ts[k].type = "LeftParenthesis"
    THEN LET e == RefExpr(ts, k + 1) IN
         IF e.ok /\ e.next <= Len(ts) /\ ts[e.next].type = "RightParenthesis"
         THEN RefOk(new_parenteses(e.tree), e.next + 1)
         ELSE RefFail
    ELSE RefFail

\* term (('*'|'/') term)*, the product so far being acc
RefProductLoop(ts, k, acc) ==
    IF k <= Len(ts) /\ ts[k].type \in {"MultiplicationSign", "DivisionSign"}
    THEN LET t == RefTerm(ts, k + 1) IN
         IF t.ok
         THEN RefProductLoop(ts, t.next, construct_expression(ts[k], acc, t.tree))
         ELSE RefFail
    ELSE RefOk(acc, k)

RefProduct(ts, k) ==
    LET t == RefTerm(ts, k) IN
    IF t.ok THEN RefProductLoop(ts, t.next, t.tree) ELSE RefFail

\* product (('+'|'-') product)*, the sum so far being acc
RefSumLoop(ts, k, acc) ==
    IF k <= Len(ts) /\ ts[k].type \in {"PlusSign", "MinusSign"}
    THEN LET t == RefProduct(ts, k + 1) IN
         IF t.ok
         THEN RefSumLoop(ts, t.next, construct_expression(ts[k], acc, t.tree))
         ELSE RefFail
    ELSE RefOk(acc, k)

RefExpr(ts, k) ==
    LET t == RefProduct(ts, k) IN
    IF t.ok THEN RefSumLoop(ts, t.next, t.tree) ELSE RefFail

\* ts, a sequence of tokens without positions, is derivable from the grammar
Derivable(ts) ==
    LET e == RefExpr(ts, 1) IN e.ok /\ e.next = Len(ts) + 1

RefTree(ts) == RefExpr(ts, 1).tree

\* the tokens of a vector, without their positions
Kinds(toks) == [k \in 1..Len(toks) |-> toks[k].token]

IsLiteral(token) == token.type = "DecimalInteger"

\* the caller has run the parser on the token vector
Parsed == pc \in {"parsed", "evaluated"}

FailsWith(message, position, kind) ==
    /\ parsed.kind = "Err"
    /\ parsed.err = ParseExpressionError(message, position, kind)

\* the token vector of a source whose tokens are separated by one blank
RECURSIVE Offset(_, _)
Offset(ts, k) == IF k = 1 THEN 0 ELSE Offset(ts, k - 1) + Len(TokenText(ts[k - 1])) + 1

LayOut(ts) == [k \in 1..Len(ts) |-> TokenWithPos(ts[k], Offset(ts, k))]

(***************************************************************************)
(* Claims                                                                  *)
(***************************************************************************)

\* C1: the parser returns Ok only for token sequences derivable from the
\* grammar; every sequence that is not derivable is rejected with an error.
C1_OnlyDerivableAccepted ==
    (Parsed /\ parsed.kind = "Ok") => Derivable(Kinds(tokens))

\* C2: every token sequence derivable from the grammar parses successfully
\* to exactly the tree of the reference precedence parser.
C2_DerivableGivesReferenceTree ==
    (Parsed /\ Derivable(Kinds(tokens))) =>
        /\ parsed.kind = "Ok"
        /\ parsed.expr = RefTree(Kinds(tokens))

\* the token vector reads a OP b OP c
IsChain(ts) ==
    /\ Len(ts) = 5
    /\ IsLiteral(ts[1]) /\ IsLiteral(ts[3]) /\ IsLiteral(ts[5])
    /\ IsBinaryOperatorToken(ts[2])
    /\ ts[4] = ts[2]

\* (a OP b) OP c for the chain a OP b OP c
Grouped(ts) ==
    <<LeftParenthesis, ts[1], ts[2], ts[3], RightParenthesis, ts[4], ts[5]>>

\* the result of evaluating what the parser returned, when it returned a tree
ParseAndEvaluate(toks) ==
    LET res == parse_int_ring_expression_from_tokens(toks) IN
    IF res.kind = "Ok" THEN evaluate(res.expr) ELSE res

\* C3: a OP b OP c parses to an OP node whose right child is the leaf c, and
\* evaluates to the same value or the same error as (a OP b) OP c.
C3_LeftAssociative ==
    (Parsed /\ IsChain(Kinds(tokens))) =>
        /\ parsed.kind = "Ok"
        /\ parsed.expr.type = construct_expression(tokens[2].token, 0, 0).type
        /\ parsed.expr.right = new_int_element(tokens[5].token.d)
        /\ pc = "evaluated" => value = ParseAndEvaluate(LayOut(Grouped(Kinds(tokens))))

\* a chain of subtractions was parsed and evaluated to a value
C3_Witness ==
    /\ pc = "evaluated"
    /\ IsChain(Kinds(tokens))
    /\ tokens[2].token = MinusSign
    /\ tokens[1].token.d = IntMax
    /\ tokens[3].token.d = 2
    /\ tokens[5].token.d = 2
    /\ value = EvalOk(IntMax - 4)

\* C4: for every representable integer n, negative ones and the smallest
\* one included, the decimal text of n parses and evaluates to n.
C4_RoundTrip ==
    \A n \in IntMin..IntMax :
        (Parsed /\ source = DecimalText(n)) =>
            /\ parsed.kind = "Ok"
            /\ pc = "evaluated" => value = EvalOk(n)

\* C5: a minus sign directly after a left parenthesis and before a literal n
\* is a sign: ( - n ) parses to Parentheses(RingElement(-n)), and
\* a * ( - n ) to Multiplication(a, Parentheses(RingElement(-n))), which
\* evaluates to the product of a and -n.
C5_UnaryMinus ==
    LET ts == Kinds(tokens) IN
    /\ (Parsed /\ Len(ts) = 4 /\ ts[1] = LeftParenthesis /\ ts[2] = MinusSign
          /\ IsLiteral(ts[3]) /\ ts[4] = RightParenthesis) =>
         /\ parsed.kind = "Ok"
         /\ parsed.expr = new_parenteses(new_int_element(0 - ts[3].d))
    /\ (Parsed /\ Len(ts) = 6 /\ IsLiteral(ts[1]) /\ ts[2] = MultiplicationSign
          /\ ts[3] = LeftParenthesis /\ ts[4] = MinusSign
          /\ IsLiteral(ts[5]) /\ ts[6] = RightParenthesis) =>
         /\ parsed.kind = "Ok"
         /\ parsed.expr = new_multiplication(new_int_element(ts[1].d),
                              new_parenteses(new_int_element(0 - ts[5].d)))
         /\ pc = "evaluated" => value = evaluate(parsed.expr)

\* C6: op S with S derivable fails with the missing left operand error at
\* the position of op, and so does P ( op S ) for any prefix P.
C6_MissingLeftOperand ==
    LET ts == Kinds(tokens)
        n == Len(tokens)
        message == "Missing left hand side expression for operator"
    IN  Parsed =>
          /\ (n >= 2 /\ IsBinaryOperatorToken(ts[1]) /\ Derivable(SubSeq(ts, 2, n))) =>
                FailsWith(message, tokens[1].position, "Unspecified")
          /\ \A j \in 1..n :
                (/\ j + 3 <= n
                 /\ ts[j] = LeftParenthesis
                 /\ IsBinaryOperatorToken(ts[j + 1])
                 /\ ts[n] = RightParenthesis
                 /\ Derivable(SubSeq(ts, j + 2, n - 1))) =>
                    FailsWith(message, tokens[j + 1].position, "Unspecified")

\* C7: a token sequence whose last token is a binary operator fails with the
\* missing right operand error at the position of that operator.
C7_MissingRightOperand ==
    (Parsed /\ Len(tokens) >= 1 /\ IsBinaryOperatorToken(tokens[Len(tokens)].token)) =>
        FailsWith("Missing right hand side expression for operator",
                  tokens[Len(tokens)].position, "Unspecified")

\* a vector of several tokens ending in an operator was rejected at that
\* operator, which does not stand at position 0
C7_Witness ==
    /\ pc = "parsed"
    /\ Len(tokens) = 3
    /\ tokens[3].token = DivisionSign
    /\ tokens[1].token = DecimalInteger(IntMax)
    /\ parsed.kind = "Err"
    /\ parsed.err.position = tokens[3].position
    /\ parsed.err.position > 2

\* a term of the grammar: a literal or a parenthesized derivable sequence
IsTerm(ts) ==
    \/ Len(ts) = 1 /\ IsLiteral(ts[1])
    \/ /\ Len(ts) >= 3
       /\ ts[1] = LeftParenthesis
       /\ ts[Len(ts)] = RightParenthesis
       /\ Derivable(SubSeq(ts, 2, Len(ts) - 1))

\* C8: P n T, with n a literal and T a term that ends the sequence, fails
\* with the adjacent operands error at the position of n.
C8_AdjacentOperands ==
    LET ts == Kinds(tokens)
        n == Len(tokens)
    IN  Parsed =>
          \A j \in 2..n :
              (IsLiteral(ts[j - 1]) /\ IsTerm(SubSeq(ts, j, n))) =>
                  FailsWith("Ring element cannot be followed by another ring element in expression",
                            tokens[j - 1].position, "Unspecified")

\* C9: E ) with E derivable fails with the missing left parenthesis error at
\* the position of the final right parenthesis.
C9_UnmatchedRightParenthesis ==
    LET ts == Kinds(tokens)
        n == Len(tokens)
    IN  (Parsed /\ n >= 2 /\ ts[n] = RightParenthesis /\ Derivable(SubSeq(ts, 1, n - 1))) =>
            FailsWith("Missing left parenthesis for right parenthesis",
                      tokens[n].position, "Unspecified")

\* C10: P ( S with S derivable fails with the missing right parenthesis
\* error at the position of that left parenthesis.
C10_UnmatchedLeftParenthesis ==
    LET ts == Kinds(tokens)
        n == Len(tokens)
    IN  Parsed =>
          \A j \in 1..n :
              (j < n /\ ts[j] = LeftParenthesis /\ Derivable(SubSeq(ts, j + 1, n))) =>
                  FailsWith("Missing right parenthesis for left parenthesis",
                            tokens[j].position, "Unspecified")

\* C20: the parser never aborts: on every token vector, Modulo included, it
\* returns Ok(tree) or Err(error); the unwrap of the literal arm, the
\* left_mut and right_mut calls of the rotation and the debug assertion of
\* the literal arm never fail.
C20_ParserTotal ==
    Parsed =>
        /\ parsed.kind \in {"Ok", "Err"}
        /\ parsed.asserts

\* a literal directly after a left parenthesis went through the unwrap, and
\* the group became the left operand of a product through left_mut
C20_Witness ==
    /\ pc = "parsed"
    /\ Len(tokens) = 5
    /\ tokens[1].token = LeftParenthesis
    /\ IsLiteral(tokens[2].token)
    /\ tokens[3].token = RightParenthesis
    /\ tokens[4].token = MultiplicationSign
    /\ parsed.kind = "Ok"
    /\ parsed.expr.left = new_parenteses(new_int_element(tokens[2].token.d))

\* what may follow a term: nothing, or (op term)*
IsContinuation(ts) == ts = << >> \/ Derivable(<<DecimalInteger(0)>> \o ts)

\* C11: the empty token vector fails with "No expression", kind NoExpression,
\* at position 0; an empty group ( ) followed by nothing or by a well-formed
\* continuation fails with the same error at the position of its right
\* parenthesis.
C11_NoExpression ==
    LET ts == Kinds(tokens)
        n == Len(tokens)
    IN  Parsed =>
          /\ n = 0 => FailsWith("No expression", 0, "NoExpression")
          /\ \A j \in 1..n :
                (/\ j < n
                 /\ ts[j] = LeftParenthesis
                 /\ ts[j + 1] = RightParenthesis
                 /\ IsContinuation(SubSeq(ts, j + 2, n))) =>
                    FailsWith("No expression", tokens[j + 1].position, "NoExpression")

\* the result the ring owes for the exact mathematical result n
Checked(n) ==
    IF IntMin <= n /\ n <= IntMax THEN RingOk(n) ELSE RingErr("Overflow")

\* C15: add, sub and mul return Ok(exact result) when the exact result is in
\* [MIN, MAX] and Err(Overflow) otherwise; they never wrap.
C15_OverflowChecked ==
    /\ pc = "add" => value = Checked(elms[1] + elms[2])
    /\ pc = "sub" => value = Checked(elms[1] - elms[2])
    /\ pc = "mul" => value = Checked(elms[1] * elms[2])

C15_Witness ==
    /\ pc = "mul"
    /\ elms = <<IntMin, 0 - 1>>
    /\ value = RingErr("Overflow")

\* a is an exact multiple of b
IsMultiple(a, b) == \E q \in IntMin..(IntMax + 1) : q * b = a

\* C16: div returns Err(Overflow) when b = 0 or (a, b) = (MIN, -1),
\* Err(Result not in ring) when b # 0 and a is not an exact multiple of b,
\* and otherwise Ok of the exact quotient.
C16_Division ==
    LET a == elms[1]
        b == elms[2]
    IN  pc = "div" =>
          IF b = 0 \/ (a = IntMin /\ b = 0 - 1)
          THEN value = RingErr("Overflow")
          ELSE IF ~IsMultiple(a, b)
          THEN value = RingErr("Result not in ring")
          ELSE /\ value.ok
               /\ value.value * b = a

C16_Witness ==
    /\ pc = "div"
    /\ elms = <<IntMin, 2>>
    /\ value.ok
    /\ value.value < 0
    /\ value.value * 2 = IntMin

\* C13: a binary node evaluates its left operand first: a left error is the
\* result whatever the right operand is (the right operand is not
\* evaluated); with the left Ok, a right error is the result; with both Ok
\* the result is the ring operation on the two values, a RingError turned
\* into an error with the same message.
C13_LeftOperandFirst ==
    (pc = "evaluated_built" /\ is_operator(Top(built))) =>
        LET node == Top(built)
            l == evaluate(node.left)
            r == evaluate(node.right)
        IN  /\ l.kind = "Err" => value = l
            /\ (l.kind = "Ok" /\ r.kind = "Err") => value = r
            /\ (l.kind = "Ok" /\ r.kind = "Ok") =>
                  LET res == binary_operation(node.type, l.value, r.value) IN
                  value = IF res.ok THEN EvalOk(res.value)
                                    ELSE EvalErr(res.message)

\* both operands fail, each with its own message: the left one is reported
C13_Witness ==
    /\ pc = "evaluated_built"
    /\ is_operator(Top(built))
    /\ evaluate(Top(built).left) = EvalErr("Result not in ring")
    /\ evaluate(Top(built).right) = EvalErr("Overflow")
    /\ value = EvalErr("Result not in ring")

\* C14: evaluate returns a value or an error on every tree of the public
\* constructors and never aborts; on UnaryMinus(child) it returns the ring's
\* 0 - child, or the child's error.
C14_EvaluateTotal ==
    pc = "evaluated_built" =>
        /\ value.kind \in {"Ok", "Err"}
        /\ Top(built).type = "UnaryMinus" =>
              LET child == evaluate(Top(built).inner) IN
              IF child.kind = "Ok"
              THEN LET res == IntRing_sub(0, child.value) IN
                   value = IF res.ok THEN EvalOk(res.value)
                                     ELSE EvalErr(res.message)
              ELSE value = child

\* C12: when the lexer yields an error on the source, the result of
\* parse_int_ring_expression is the first lexical error, with kind
\* TokenParseError, whatever the tokens before it are.
C12_LexicalErrorsWin ==
    (Parsed /\ iter.error # None) =>
        FailsWith(iter.error[1].message, iter.error[1].position, "TokenParseError")

\* two adjacent literals, then an invalid character
C12_Witness ==
    /\ Parsed
    /\ iter.error = Some([message |-> "Invalid token", position |-> 3])
    /\ Len(tokens) = 2
    /\ IsLiteral(tokens[1].token)
    /\ IsLiteral(tokens[2].token)
    /\ parse_int_ring_expression_from_tokens(tokens).kind = "Err"
    /\ FailsWith("Invalid token", 3, "TokenParseError")

IsSymbol(c) == c \in {"(", ")", "+", "-", "*", "/"}

\* the index after the maximal run of ASCII digits that starts at k
RECURSIVE DigitRunEnd(_, _)
DigitRunEnd(src, k) ==
    IF k <= Len(src) /\ IsAsciiDigit(src[k]) THEN DigitRunEnd(src, k + 1) ELSE k

\* the decimal value of the digits src[k..e-1]
RECURSIVE DecimalValue(_, _, _)
DecimalValue(src, k, e) ==
    IF e <= k THEN 0
    ELSE 10 * DecimalValue(src, k, e - 1) + DigitValue(src[e - 1])

\* the indices where a token starts: a symbol, or the first digit of a run
TokenStarts(src) ==
    {k \in 1..Len(src) :
        \/ IsSymbol(src[k])
        \/ IsAsciiDigit(src[k]) /\ (k = 1 \/ ~IsAsciiDigit(src[k - 1]))}

\* the token that starts at index k of src
TokenAt(src, k) ==
    CASE src[k] = "(" -> LeftParenthesis
      [] src[k] = ")" -> RightParenthesis
      [] src[k] = "+" -> PlusSign
      [] src[k] = "-" -> MinusSign
      [] src[k] = "*" -> MultiplicationSign
      [] src[k] = "/" -> DivisionSign
      [] OTHER -> DecimalInteger(DecimalValue(src, k, DigitRunEnd(src, k)))

\* whitespace, symbols and runs of ASCII digits that fit in the integer
IsPlainText(src) ==
    /\ \A k \in 1..Len(src) :
          src[k] = " " \/ IsSymbol(src[k]) \/ IsAsciiDigit(src[k])
    /\ \A k \in TokenStarts(src) :
          IsAsciiDigit(src[k]) => DecimalValue(src, k, DigitRunEnd(src, k)) <= IntMax

\* the n-th token start, counted from the left
NthStart(src, n) ==
    CHOOSE k \in TokenStarts(src) :
        Cardinality({j \in TokenStarts(src) : j < k}) = n - 1

\* C17: on a source of whitespace, symbols and fitting digit runs the
\* iterator yields, in source order, one token per symbol and per maximal
\* digit run, each with the zero-based offset of its first character, with
\* strictly increasing positions, and then None.
C17_TokensInSourceOrder ==
    (pc = "lexing" /\ IsPlainText(source)) =>
        /\ iter.error = None
        /\ Len(tokens) <= Cardinality(TokenStarts(source))
        /\ \A n \in 1..Len(tokens) :
              tokens[n] = TokenWithPos(TokenAt(source, NthStart(source, n)),
                                       NthStart(source, n) - 1)
        /\ \A n \in 1..(Len(tokens) - 1) :
              tokens[n].position < tokens[n + 1].position
        /\ iter.done => Len(tokens) = Cardinality(TokenStarts(source))
        /\ Len(tokens) = Cardinality(TokenStarts(source)) =>
              TokenIterator_next(source, iter.cursor).kind = "None"

\* two tokens with whitespace before, between and after them, then None
C17_Witness ==
    /\ pc = "lexing"
    /\ IsPlainText(source)
    /\ iter.done
    /\ Len(source) = MaxChars
    /\ source[1] = " "
    /\ source[MaxChars] = " "
    /\ Len(tokens) = 2
    /\ tokens[1].position = 1
    /\ IsLiteral(tokens[2].token)

\* C18: a call of next() that starts at an ASCII digit yields the
\* DecimalInteger of the maximal run of ASCII digits when the decimal value
\* of the run is at most the largest integer, and otherwise the error
\* Decimal number too big at the first digit of the run.
C18_IntegerLiterals ==
    pc = "lexing" =>
        /\ \A n \in 1..Len(tokens) :
              LET k == tokens[n].position + 1
                  run == DecimalValue(source, k, DigitRunEnd(source, k))
              IN  IsAsciiDigit(source[k]) =>
                      /\ run <= IntMax
                      /\ tokens[n].token = DecimalInteger(run)
        /\ iter.error # None =>
              LET k == iter.error[1].position + 1
                  run == DecimalValue(source, k, DigitRunEnd(source, k))
              IN  IsAsciiDigit(source[k]) =>
                      /\ run > IntMax
                      /\ iter.error[1].message = "Decimal number too big"

\* neither whitespace, nor a symbol, nor m, nor an ASCII digit
IsOtherCharacter(c) == ~(c = " " \/ IsSymbol(c) \/ c = "m" \/ IsAsciiDigit(c))

\* C19: a character that is neither whitespace, nor a symbol, nor m, nor an
\* ASCII digit, after a text the lexer accepts, makes the lexer yield
\* Invalid token at the offset of that character, after the tokens of the
\* text before it: the character extends no digit run.
C19_InvalidCharacter ==
    (pc = "lexing" /\ Lexed) =>
        \A k \in 1..Len(source) :
            (/\ IsOtherCharacter(source[k])
             /\ IsPlainText(SubSeq(source, 1, k - 1))) =>
                /\ iter.error = Some([message |-> "Invalid token", position |-> k - 1])
                /\ Len(tokens) = Cardinality(TokenStarts(SubSeq(source, 1, k - 1)))
                /\ \A n \in 1..Len(tokens) : tokens[n].position < k - 1

\* C21: whenever the top-level call of the recursive parser returns Ok, the
\* reversed token cursor is exhausted: the debug assertion of the top level
\* holds for every token vector.
C21_CursorExhausted ==
    Parsed => parsed.exhausted

\* a successful parse of a vector with a group to the right of an operator
C21_Witness ==
    /\ pc = "parsed"
    /\ parsed.kind = "Ok"
    /\ parsed.exhausted
    /\ Len(tokens) = 5
    /\ IsLiteral(tokens[1].token)
    /\ IsBinaryOperatorToken(tokens[2].token)
    /\ tokens[3].token = LeftParenthesis
    /\ tokens[5].token = RightParenthesis
    /\ parsed.expr.right.type = "Parentheses"

RECURSIVE HasUnaryMinus(_)
\* the tree holds a UnaryMinus node
HasUnaryMinus(e) ==
    CASE e.type = "RingElement" -> FALSE
      [] e.type = "Parentheses" -> HasUnaryMinus(e.inner)
      [] e.type = "UnaryMinus" -> TRUE
      [] OTHER -> HasUnaryMinus(e.left) \/ HasUnaryMinus(e.right)

\* C22: no tree returned by the parser holds a UnaryMinus node, and the
\* evaluation of a parsed tree returns a value or an error, never the panic
\* of the UnaryMinus case.
C22_NoUnaryMinusParsed ==
    /\ (Parsed /\ parsed.kind = "Ok") => ~HasUnaryMinus(parsed.expr)
    /\ pc = "evaluated" => value.kind \in {"Ok", "Err"}

\* a parsed and evaluated subtraction
C22_Witness ==
    /\ pc = "evaluated"
    /\ parsed.kind = "Ok"
    /\ parsed.expr.type = "Subtraction"
    /\ \E k \in 1..Len(tokens) : tokens[k].token = MinusSign
    /\ value.kind = "Ok"

\* C23: a token vector P mod S, with S empty or derivable from the grammar,
\* fails with Unhandled token: mod, kind Unspecified, at the position of the
\* Modulo token; no token vector with a Modulo token parses successfully.
C23_ModuloRejected ==
    LET ts == Kinds(tokens)
        n == Len(tokens)
    IN  Parsed =>
          \A j \in 1..n :
              ts[j] = Modulo =>
                  /\ parsed.kind # "Ok"
                  /\ (j = n \/ Derivable(SubSeq(ts, j + 1, n))) =>
                        FailsWith("Unhandled token: mod", tokens[j].position, "Unspecified")

\* the token an operator node was built from
OperatorToken(e) ==
    CASE e.type = "Addition" -> PlusSign
      [] e.type = "Subtraction" -> MinusSign
      [] e.type = "Multiplication" -> MultiplicationSign
      [] e.type = "Division" -> DivisionSign

RECURSIVE InOrder(_)
\* the in-order traversal of a tree, Parentheses wrappers skipped
InOrder(e) ==
    CASE e.type = "RingElement" -> <<DecimalInteger(e.element)>>
      [] e.type = "Parentheses" -> InOrder(e.inner)
      [] e.type = "UnaryMinus" -> <<MinusSign>> \o InOrder(e.inner)
      [] OTHER -> InOrder(e.left) \o <<OperatorToken(e)>> \o InOrder(e.right)

RECURSIVE WithoutParentheses(_)
\* a token sequence with its parentheses removed
WithoutParentheses(ts) ==
    IF ts = << >> THEN << >>
    ELSE IF Head(ts) \in {LeftParenthesis, RightParenthesis}
    THEN WithoutParentheses(Tail(ts))
    ELSE <<Head(ts)>> \o WithoutParentheses(Tail(ts))

\* C24: the in-order traversal of a successfully parsed tree is the input
\* token sequence with its parentheses removed: no literal and no operator
\* is dropped, duplicated or moved, and the placeholder element 0 of the
\* operator arm does not remain.
C24_OperandPreservation ==
    (Parsed /\ parsed.kind = "Ok") =>
        InOrder(parsed.expr) = WithoutParentheses(Kinds(tokens))

\* a parse that took the rotation: a product to the left of a sum
C24_Witness ==
    /\ pc = "parsed"
    /\ parsed.kind = "Ok"
    /\ Len(tokens) = 5
    /\ tokens[2].token = MultiplicationSign
    /\ tokens[4].token = PlusSign
    /\ parsed.expr.type = "Addition"
    /\ parsed.expr.left.type = "Multiplication"
    /\ InOrder(parsed.expr) = Kinds(tokens)

====
